---------------------------- MODULE Spec2Model ----------------------------
(***************************************************************************)
(* Citation exploration engine of PaperGraph (backend/paper_service.py)    *)
(* with its frontier structures (backend/util/frontier.py).                *)
(*                                                                         *)
(* A session is one call of PaperService.explore_paper.  Sessions share    *)
(* the repository (papers, citations and relations tables).  A session is  *)
(* a stack of explore_downward / explore_upward frames; it can be          *)
(* descheduled where it accesses the relations table, and runs without     *)
(* interruption between two such accesses.                                 *)
(***************************************************************************)
EXTENDS Integers, Sequences, FiniteSets, TLC

\* ------------------------------------------------------------------ bounds
MaxEdges == 2      \* rows of the citations table
MaxDepth == 2      \* largest max_depth a session is started with
MaxScore == 1      \* relevance levels 0..MaxScore stand for 0.0 .. 1.0
MaxBad   == 1      \* papers without a row in papers, or whose scoring raises
MaxOps   == 4      \* operations applied to a frontier object driven on its own
MaxChunks == 2     \* rows of paper_chunks per paper

\* ------------------------------------------------------- program constants
NoScore == -1          \* Python None in a relevance_score field
UpwardMaxDepth == 1    \* max_depth passed to explore_upward by explore_paper

PaperOrder == <<"P0", "P1", "P2", "P3">>
Papers == {PaperOrder[i] : i \in 1..Len(PaperOrder)}
root_paper_id == PaperOrder[1]
Scores == 0..MaxScore
Thresholds == 1..MaxScore
TraversalTypes == {"bfs", "dfs", "priority"}
Sess == {1, 2}
\* P3 occurs only in the scenario of the specification's section 8
EnumPapers == Papers \ {"P3"}
EdgePairs == {e \in Papers \X Papers : e[1] # e[2]}

VARIABLES
  papers,      \* ids that have a row in the papers table
  citations,   \* the citations table: pairs <<source_paper_id, cited_paper_id>>
  sim,         \* sim[p]: what compare_two_papers(root_paper_id, p) returns
  broken,      \* ids for which generating/parsing embeddings raises
  concurrent,  \* TRUE when sessions may overlap in time
  rel,         \* the relations table: rel[p] = rows (root_paper_id, p), each a score or NoScore
  sess,        \* sess[s]: the state of session s
  turn,        \* the session that holds the thread of control, 0 when none does
  hist,        \* history of scorer invocations over all sessions
  fr,          \* a frontier object driven on its own, outside any session
  sc           \* one call of compare_two_papers on its own, outside any session

vars == <<papers, citations, sim, broken, concurrent, rel, sess, turn, hist, fr, sc>>
\* what no step of a session changes
world == <<papers, citations, sim, broken, concurrent, fr, sc>>

\* ------------------------------------------------------ frontier.py
\* A frontier entry is a node dict; only "id" and "relevance_score" matter.
Node(id, score) == [id |-> id, score |-> score]

Swap(f, i, j) == [f EXCEPT ![i] = f[j], ![j] = f[i]]

\* (key, element) < (key', element') for heap items, key = comparator(element)
\* = -relevance_score.  Equal keys fall through to comparing the dicts, which
\* is False for equal dicts and a TypeError for different ones.
HeapLess(a, b) ==
  IF -a.score < -b.score THEN "lt"
  ELSE IF -a.score > -b.score THEN "ge"
  ELSE IF a = b THEN "ge" ELSE "err"

\* heapq._siftdown(heap, startpos, pos), positions 1-based
RECURSIVE SiftDown(_, _)
SiftDown(f, pos) ==
  IF pos <= 1 THEN [f |-> f, err |-> FALSE]
  ELSE LET parentpos == pos \div 2
           c == HeapLess(f[pos], f[parentpos])
       IN IF c = "err" THEN [f |-> f, err |-> TRUE]
          ELSE IF c = "lt" THEN SiftDown(Swap(f, pos, parentpos), parentpos)
          ELSE [f |-> f, err |-> FALSE]

\* heapq._siftup(heap, pos): move the smaller child up until a leaf is hit,
\* then sift the displaced item down from there.
RECURSIVE SiftUp(_, _)
SiftUp(f, pos) ==
  LET n == Len(f)
      left == 2 * pos
      right == 2 * pos + 1
  IN IF left > n THEN SiftDown(f, pos)
     ELSE IF right <= n
          THEN LET c == HeapLess(f[left], f[right])
               IN IF c = "err" THEN [f |-> f, err |-> TRUE]
                  ELSE LET child == IF c = "lt" THEN left ELSE right
                       IN SiftUp(Swap(f, pos, child), child)
          ELSE SiftUp(Swap(f, pos, left), left)

\* Queue.insert / Stack.insert / PriorityQueue.insert
FrontierInsert(ttype, f, node) ==
  IF ttype = "priority"
  THEN IF node.score = NoScore
       THEN [f |-> f, err |-> TRUE]          \* -None raises TypeError
       ELSE SiftDown(Append(f, node), Len(f) + 1)
  ELSE [f |-> Append(f, node), err |-> FALSE]

\* variant: every structure gives back its most recently appended element
FrontierPopLast(ttype, f) ==
  IF f = <<>> THEN [item |-> Node("", NoScore), f |-> f, err |-> TRUE]
  ELSE [item |-> f[Len(f)], f |-> SubSeq(f, 1, Len(f) - 1), err |-> FALSE]

\* variant: every structure gives back its first element
FrontierPopFirst(ttype, f) ==
  IF f = <<>> THEN [item |-> Node("", NoScore), f |-> f, err |-> TRUE]
  ELSE [item |-> Head(f), f |-> Tail(f), err |-> FALSE]

\* Queue.pop / Stack.pop / PriorityQueue.pop; IndexError on an empty structure
FrontierPop(ttype, f) ==
  IF f = <<>> THEN [item |-> Node("", NoScore), f |-> f, err |-> TRUE]
  ELSE IF ttype = "bfs" THEN [item |-> Head(f), f |-> Tail(f), err |-> FALSE]
  ELSE IF ttype = "dfs"
  THEN [item |-> f[Len(f)], f |-> SubSeq(f, 1, Len(f) - 1), err |-> FALSE]
  ELSE LET last == f[Len(f)]
           rest == SubSeq(f, 1, Len(f) - 1)
       IN IF rest = <<>> THEN [item |-> last, f |-> rest, err |-> FALSE]
          ELSE LET r == SiftUp([rest EXCEPT ![1] = last], 1)
               IN [item |-> rest[1], f |-> r.f, err |-> r.err]

FrontierIsEmpty(f) == f = <<>>

\* insert a list of nodes one by one, stopping at the first one that raises
RECURSIVE InsertAll(_, _, _)
InsertAll(ttype, f, nodes) ==
  IF nodes = <<>> THEN [f |-> f, err |-> FALSE]
  ELSE LET r == FrontierInsert(ttype, f, Head(nodes))
       IN IF r.err THEN r ELSE InsertAll(ttype, r.f, Tail(nodes))

\* ------------------------------------------------------ a frontier on its own
\* the node dicts the explorers insert: a reference or parent node carries
\* the score of its relation, the node of the current paper carries None
FrontierEntries == {Node(p, score) : p \in {"P0", "P1"}, score \in Scores \cup {NoScore}}

\* no frontier object outside the sessions
FrontierUnused == [ttype |-> "bfs", f |-> <<>>, ops |-> <<>>, err |-> FALSE]

\* frontier.insert(e) on the object; ops is the trace of the calls made
FrInsert(e) ==
  /\ ~fr.err /\ Len(fr.ops) < MaxOps
  /\ LET r == FrontierInsert(fr.ttype, fr.f, e)
     IN fr' = [fr EXCEPT !.f = r.f, !.err = r.err,
                         !.ops = Append(@, [op |-> "insert", item |-> e])]
  /\ UNCHANGED <<papers, citations, sim, broken, concurrent, rel, sess, turn, hist, sc>>

\* frontier.pop() on the object, empty or not
FrPop ==
  /\ ~fr.err /\ Len(fr.ops) < MaxOps
  /\ LET r == FrontierPop(fr.ttype, fr.f)
     IN fr' = [fr EXCEPT !.f = r.f, !.err = r.err,
                         !.ops = Append(@, [op |-> "pop", item |-> r.item])]
  /\ UNCHANGED <<papers, citations, sim, broken, concurrent, rel, sess, turn, hist, sc>>

\* ------------------------------------------------------ paper_comparison.py
\* Floats are fixed-point numbers, Unit standing for 1.0; a division rounds
\* down.  An embedding column holds the text of a vector, here the sequence
\* of its numerals, or nothing (the empty sequence).
Unit == 10
Dim == 2
NoEmbedding == <<>>
ChunkRows == {<<"1", "0">>, <<"0", "1">>, <<"1", "1">>, <<"-1", "0">>, NoEmbedding}

\* float(val) of one numeral
FloatOf(val) == IF val = "1" THEN Unit ELSE IF val = "-1" THEN -Unit ELSE 0

\* convert_pgvector: the list of floats of the text
convert_pgvector(embedding_str) ==
  [i \in 1..Len(embedding_str) |-> FloatOf(embedding_str[i])]

RECURSIVE SumSeq(_)
SumSeq(q) == IF q = <<>> THEN 0 ELSE Head(q) + SumSeq(Tail(q))

\* floor of the square root
ISqrt(n) == CHOOSE r \in 0..(Dim * Unit) : r * r <= n /\ n < (r + 1) * (r + 1)

Dot(x, y) == SumSeq([i \in 1..Len(x) |-> x[i] * y[i]]) \div Unit

\* sklearn normalize: a row divided by its L2 norm, a zero row left as it is
Normalize(x) ==
  LET norm == ISqrt(SumSeq([i \in 1..Len(x) |-> x[i] * x[i]]))
  IN IF norm = 0 THEN x ELSE [i \in 1..Len(x) |-> (x[i] * Unit) \div norm]

\* one entry of sklearn cosine_similarity(X, Y)
sk_cosine_similarity(x, y) == Dot(Normalize(x), Normalize(y))

\* np.mean(arr, axis=0)
MeanVector(arr) ==
  [i \in 1..Dim |-> SumSeq([k \in 1..Len(arr) |-> arr[k][i]]) \div Len(arr)]

mean_embedding_similarity(embeddings_A, embeddings_B) ==
  sk_cosine_similarity(MeanVector(embeddings_A), MeanVector(embeddings_B))

MaxOf(S) == CHOOSE m \in S : \A x \in S : x <= m

\* variant: only the best matches of the chunks of the first paper count
pairwise_chunk_similarityOneSided(embeddings_A, embeddings_B) ==
  LET nA == Len(embeddings_A)
      nB == Len(embeddings_B)
      max_sim_A(i) == MaxOf({sk_cosine_similarity(embeddings_A[i], embeddings_B[j]) : j \in 1..nB})
  IN SumSeq([i \in 1..nA |-> max_sim_A(i)]) \div nA

pairwise_chunk_similarity(embeddings_A, embeddings_B) ==
  LET nA == Len(embeddings_A)
      nB == Len(embeddings_B)
      max_sim_A(i) == MaxOf({sk_cosine_similarity(embeddings_A[i], embeddings_B[j]) : j \in 1..nB})
      max_sim_B(j) == MaxOf({sk_cosine_similarity(embeddings_A[i], embeddings_B[j]) : i \in 1..nA})
  IN ((SumSeq([i \in 1..nA |-> max_sim_A(i)]) \div nA)
        + (SumSeq([j \in 1..nB |-> max_sim_B(j)]) \div nB)) \div 2

\* alpha is given in tenths
compare_paper_embeddings(embeddings_A, embeddings_B, alpha) ==
  (alpha * pairwise_chunk_similarity(embeddings_A, embeddings_B)
     + (10 - alpha) * mean_embedding_similarity(embeddings_A, embeddings_B)) \div 10

Alphas == {5, 6, 10}

\* the embeddings of the chunk rows that have one
EmbeddingsOf(chunks) ==
  LET usable == SelectSeq(chunks, LAMBDA chunk : chunk # NoEmbedding)
  IN [k \in 1..Len(usable) |-> convert_pgvector(usable[k])]

\* no call of compare_two_papers outside the sessions
ScorerUnused ==
  [pc |-> "unused", main_chunks |-> <<>>, baseline_chunks |-> <<>>, alpha |-> 5,
   embeddings_A |-> <<>>, embeddings_B |-> <<>>, invoked |-> FALSE,
   raised |-> FALSE, score |-> 0]

\* compare_two_papers up to the test for empty lists: the chunk rows are read
\* and their embeddings converted
CollectEmbeddings ==
  /\ sc.pc = "called"
  /\ sc' = [sc EXCEPT !.pc = "collected",
                      !.embeddings_A = EmbeddingsOf(sc.main_chunks),
                      !.embeddings_B = EmbeddingsOf(sc.baseline_chunks)]
  /\ UNCHANGED <<papers, citations, sim, broken, concurrent, rel, sess, turn, hist, fr>>

\* variant: the lists are not tested for emptiness
ScoreOfUnchecked(r) ==
  IF r.embeddings_A = <<>> \/ r.embeddings_B = <<>>
  THEN [r EXCEPT !.pc = "returned", !.invoked = TRUE, !.raised = TRUE]
  ELSE [r EXCEPT !.pc = "returned", !.invoked = TRUE,
                 !.score = compare_paper_embeddings(r.embeddings_A, r.embeddings_B, r.alpha)]

\* the test for empty lists and the call of compare_paper_embeddings
ScoreOf(r) ==
  IF r.embeddings_A = <<>> \/ r.embeddings_B = <<>>
  THEN [r EXCEPT !.pc = "returned", !.score = 0]
  ELSE [r EXCEPT !.pc = "returned", !.invoked = TRUE,
                 !.score = compare_paper_embeddings(r.embeddings_A, r.embeddings_B, r.alpha)]

ReturnScore ==
  /\ sc.pc = "collected"
  /\ sc' = ScoreOf(sc)
  /\ UNCHANGED <<papers, citations, sim, broken, concurrent, rel, sess, turn, hist, fr>>

\* ------------------------------------------------------ paper_repository.py
\* get_paper_by_semantic_id(id): TRUE when a row comes back
get_paper_by_semantic_id(id) == id \in papers

\* get_citations_by_source(id): the cited_paper_id of each row, in row order
get_citations_by_source(id) ==
  SelectSeq(PaperOrder, LAMBDA q : <<id, q>> \in citations)

\* get_citations_by_cited(id): the source_paper_id of each row, in row order
get_citations_by_cited(id) ==
  SelectSeq(PaperOrder, LAMBDA q : <<q, id>> \in citations)

\* compare_two_papers(root_paper_id, id) preceded by
\* generate_embedding_for_paper_chunks: a score, or an exception
ScorerRaises(id) ==
  id \in broken \/ root_paper_id \in broken \/ root_paper_id \notin papers
compare_two_papers(id) == sim[id]

\* ------------------------------------------------------ session state
Frame(phase, start, depth) ==
  [phase |-> phase, start |-> start, depth |-> depth, stage |-> "enter",
   todo |-> <<>>, filtered |-> <<>>, disc |-> {}]

IdleSession ==
  [pc |-> "idle", start |-> root_paper_id, max_depth |-> 0, threshold |-> 1,
   ttype |-> "bfs", stack |-> <<>>, explored |-> {}, explored_down |-> {},
   frontier |-> <<>>, msgs |-> <<>>, down_disc |-> {}, qual_todo |-> {},
   qualified |-> <<>>, called_up |-> <<>>, up_all |-> {}, result |-> "none",
   up_todo |-> <<>>, expanded |-> <<>>, scored |-> {}, down_msgs |-> 0,
   calls |-> 0, writes |-> 0]

Top(r) == r.stack[Len(r.stack)]
SetTop(r, f) == [r EXCEPT !.stack[Len(r.stack)] = f]
Stage(r) == IF r.stack = <<>> THEN "none" ELSE Top(r).stage

BatchMsg(phase, start, nodes, links) ==
  [kind |-> "batch", phase |-> phase, of |-> start, nodes |-> nodes, links |-> links]
StatusMsg == [kind |-> "status", phase |-> "", of |-> "", nodes |-> <<>>, links |-> <<>>]
ErrorMsg  == [kind |-> "error", phase |-> "", of |-> "", nodes |-> <<>>, links |-> <<>>]

\* await websocket.send_json(msg), when the client is there
Send(r, msg) == [r EXCEPT !.msgs = Append(@, msg)]

\* variant: the upward explored set starts empty
BeginUpwardFresh(r) ==
  [r EXCEPT !.pc = "up", !.qual_todo = {}, !.frontier = <<>>,
            !.explored = {}, !.up_todo = r.qualified]

\* explore_paper once qualified_nodes is complete: frontier_up and
\* explored_upwards = set(explored_papers_downward)
BeginUpward(r) ==
  [r EXCEPT !.pc = "up", !.qual_todo = {}, !.frontier = <<>>,
            !.explored = r.explored_down, !.up_todo = r.qualified]

\* "return <ret>" of the top explore_downward / explore_upward frame: the
\* caller's "discovered_nodes.update(child_nodes)", or back in explore_paper
ReturnTo(r, ret) ==
  LET f == Top(r)
      rest == SubSeq(r.stack, 1, Len(r.stack) - 1)
  IN IF rest # <<>>
     THEN [r EXCEPT !.stack = [rest EXCEPT ![Len(rest)].disc = @ \cup ret]]
     ELSE IF f.phase = "down"
          THEN IF ret = {}
               THEN BeginUpward([r EXCEPT !.stack = <<>>, !.down_disc = ret,
                                          !.explored_down = r.explored,
                                          !.down_msgs = Len(r.msgs)])
               ELSE [r EXCEPT !.stack = <<>>, !.pc = "qualify", !.down_disc = ret,
                              !.explored_down = r.explored, !.qual_todo = ret,
                              !.down_msgs = Len(r.msgs)]
          ELSE [r EXCEPT !.stack = <<>>, !.up_all = @ \cup ret]

\* the "except Exception" clause of explore_downward / explore_upward
RaiseInFrame(r) == ReturnTo(Send(r, ErrorMsg), {})

\* the "except Exception" clause of explore_paper: error message, return {}
RaiseInSession(r) ==
  [Send(r, ErrorMsg) EXCEPT !.pc = "done", !.result = "error", !.stack = <<>>]

\* variant: the failure of a send is dropped and the session goes on
CrashSwallowed(r0, r1) == [r1 EXCEPT !.result = "raised", !.msgs = r0.msgs]

\* a send that fails goes to the except clause of every active frame and of
\* explore_paper, whose own send fails as well: the exception leaves explore_paper
Crash(r0, r1) ==
  [r1 EXCEPT !.pc = "crashed", !.result = "raised", !.stack = <<>>, !.msgs = r0.msgs]

\* whether a send of the step succeeds; clients stay connected in the
\* specification of overlapping sessions
SendOutcomes == IF concurrent THEN {TRUE} ELSE BOOLEAN

Sent(r0, r1) == Len(r1.msgs) > Len(r0.msgs)
Outcome(r0, r1, ok) == IF Sent(r0, r1) /\ ~ok THEN Crash(r0, r1) ELSE r1

\* ------------------------------------------------------ process_citations / process_parents
\* variant: the threshold test of the loop is missing
AfterScoreNoFilter(r0, score) ==
  LET f == Top(r0)
      t == Head(f.todo)
      r == IF f.phase = "down" THEN [r0 EXCEPT !.scored = @ \cup {Node(t, score)}]
           ELSE r0
  IN SetTop(r, [f EXCEPT !.todo = Tail(@), !.filtered = Append(@, Node(t, score))])

\* variant: a target below the threshold is marked explored and kept in the
\* returned dict all the same
AfterScoreKeepEdge(r0, score) ==
  LET f == Top(r0)
      t == Head(f.todo)
      r == IF f.phase = "down" THEN [r0 EXCEPT !.scored = @ \cup {Node(t, score)}]
           ELSE r0
      r1 == SetTop(r, [f EXCEPT !.todo = Tail(@), !.filtered = Append(@, Node(t, score))])
  IN IF score < r.threshold THEN [r1 EXCEPT !.explored = @ \cup {t}] ELSE r1

\* the tail of one loop iteration, once process_citation returned relevance_score
AfterScore(r0, score) ==
  LET f == Top(r0)
      t == Head(f.todo)
      r == IF f.phase = "down" THEN [r0 EXCEPT !.scored = @ \cup {Node(t, score)}]
           ELSE r0
  IN IF score < r.threshold
     THEN [SetTop(r, [f EXCEPT !.todo = Tail(@)]) EXCEPT !.explored = @ \cup {t}]
     ELSE SetTop(r, [f EXCEPT !.todo = Tail(@),
                              !.filtered = Append(@, Node(t, score))])

\* variant: process_citation does not look the target up in the papers table
RECURSIVE ProcessLoopNoLookup(_)
ProcessLoopNoLookup(r) ==
  LET f == Top(r)
  IN IF f.todo = <<>> THEN SetTop(r, [f EXCEPT !.stage = "emit"])
     ELSE LET t == Head(f.todo)
          IN IF t \in r.explored
             THEN ProcessLoopNoLookup(SetTop(r, [f EXCEPT !.todo = Tail(@)]))
             ELSE SetTop(r, [f EXCEPT !.stage = "lookup"])

\* the loop of process_citations / process_parents up to the next access to
\* the relations table (stage "lookup") or to its end (stage "emit")
RECURSIVE ProcessLoop(_)
ProcessLoop(r) ==
  LET f == Top(r)
  IN IF f.todo = <<>> THEN SetTop(r, [f EXCEPT !.stage = "emit"])
     ELSE LET t == Head(f.todo)
          IN IF t \in r.explored
             THEN ProcessLoop(SetTop(r, [f EXCEPT !.todo = Tail(@)]))
             ELSE IF ~get_paper_by_semantic_id(t)
             THEN ProcessLoop(AfterScore(r, 0))     \* process_citation returns 0.0
             ELSE SetTop(r, [f EXCEPT !.stage = "lookup"])

\* variant: the current paper is not looked up in the papers table
process_citationsNoLookup(current_paper_id) ==
  get_citations_by_source(current_paper_id)

\* the rows process_citations iterates over; {} when the current paper is
\* not in the papers table
process_citations(current_paper_id) ==
  IF ~get_paper_by_semantic_id(current_paper_id) THEN <<>>
  ELSE get_citations_by_source(current_paper_id)

process_parents(child_paper_id) == get_citations_by_cited(child_paper_id)


\* ------------------------------------------------------ scheduling
Running(r) == r.pc \in {"down", "qualify", "up"}
Finished(r) == r.pc \in {"done", "crashed"}

\* a session can be descheduled where its next step reads or writes relations
AtStoreAccess(r) ==
  r.pc = "qualify" \/ Stage(r) \in {"lookup", "create", "compute"}

NextTurn(s, r) == IF Running(r) /\ ~AtStoreAccess(r) THEN s ELSE 0

MayStep(s) == turn \in {0, s} /\ Running(sess[s])

Commit(s, r) ==
  /\ sess' = [sess EXCEPT ![s] = r]
  /\ turn' = NextTurn(s, r)

\* ------------------------------------------------------ explore_paper, start
StartSession(s) ==
  /\ turn = 0
  /\ sess[s].pc = "idle"
  /\ \A t \in Sess : t < s =>
        IF concurrent THEN sess[t].pc # "idle" ELSE sess[t].pc = "done"
  /\ \E start \in EnumPapers, max_depth \in 0..MaxDepth,
        threshold \in Thresholds, ttype \in TraversalTypes :
        /\ s > 1 => /\ start = sess[1].start
                    /\ max_depth = sess[1].max_depth
                    /\ threshold = sess[1].threshold
                    /\ concurrent => ttype = sess[1].ttype
        /\ Commit(s, [IdleSession EXCEPT
                        !.pc = "down", !.start = start, !.max_depth = max_depth,
                        !.threshold = threshold, !.ttype = ttype,
                        !.stack = <<Frame("down", start, 0)>>])
  /\ UNCHANGED <<world, rel, hist>>

\* ------------------------------------------------------ explore_downward / explore_upward
\* variant: explored_papers.add(start_paper_id) is missing
ExploreEnterNoMark(r) ==
  LET f == Top(r)
      limit == IF f.phase = "down" THEN r.max_depth ELSE UpwardMaxDepth
  IN IF f.depth > limit THEN ReturnTo(Send(r, StatusMsg), {})
     ELSE IF f.start \in r.explored THEN ReturnTo(r, {})
     ELSE LET rows == IF f.phase = "down" THEN process_citations(f.start)
                      ELSE process_parents(f.start)
              r1 == [r EXCEPT !.expanded = Append(@, [phase |-> f.phase, id |-> f.start,
                                                      depth |-> f.depth])]
          IN ProcessLoop(SetTop(r1, [f EXCEPT !.todo = rows]))

\* the guards, explored_papers.add(start_paper_id) and the start of
\* process_citations / process_parents
ExploreEnter(r) ==
  LET f == Top(r)
      limit == IF f.phase = "down" THEN r.max_depth ELSE UpwardMaxDepth
  IN IF f.depth > limit THEN ReturnTo(Send(r, StatusMsg), {})
     ELSE IF f.start \in r.explored THEN ReturnTo(r, {})
     ELSE LET rows == IF f.phase = "down" THEN process_citations(f.start)
                      ELSE process_parents(f.start)
              r1 == [r EXCEPT !.explored = @ \cup {f.start},
                              !.expanded = Append(@, [phase |-> f.phase, id |-> f.start,
                                                      depth |-> f.depth])]
          IN ProcessLoop(SetTop(r1, [f EXCEPT !.todo = rows]))

Enter(s) ==
  /\ MayStep(s)
  /\ Stage(sess[s]) = "enter"
  /\ \E ok \in SendOutcomes : Commit(s, Outcome(sess[s], ExploreEnter(sess[s]), ok))
  /\ UNCHANGED <<world, rel, hist>>

\* ------------------------------------------------------ process_citation
\* variant: the stored relevance_score is not looked at
WithRowRecompute(r, row) == SetTop(r, [Top(r) EXCEPT !.stage = "compute"])

\* what process_citation does with the relation row it got back
WithRow(r, row) ==
  IF row # NoScore THEN ProcessLoop(AfterScore(r, row))
  ELSE SetTop(r, [Top(r) EXCEPT !.stage = "compute"])

\* fetch_or_insert_relation: get_relation_by_source_and_target
Lookup(s) ==
  /\ MayStep(s)
  /\ Stage(sess[s]) = "lookup"
  /\ LET r == sess[s]
         t == Head(Top(r).todo)
     IN IF rel[t] = <<>>
        THEN Commit(s, SetTop(r, [Top(r) EXCEPT !.stage = "create"]))
        ELSE \E i \in 1..Len(rel[t]) : Commit(s, WithRow(r, rel[t][i]))
  /\ UNCHANGED <<world, rel, hist>>

\* fetch_or_insert_relation: create_relation and the re-fetch
Create(s) ==
  /\ MayStep(s)
  /\ Stage(sess[s]) = "create"
  /\ LET r == sess[s]
         t == Head(Top(r).todo)
         rows == Append(rel[t], NoScore)
     IN /\ rel' = [rel EXCEPT ![t] = rows]
        /\ \E i \in 1..Len(rows) : Commit(s, WithRow(r, rows[i]))
  /\ UNCHANGED <<world, hist>>

\* variant: the computed score is not written to the relations table
UpdateRowsNoWrite(rows, score) == rows

\* update_relation_by_source_and_target: every row of the pair
UpdateRows(rows, score) == [i \in 1..Len(rows) |-> score]

\* embeddings, compare_two_papers and update_relation_by_source_and_target
Compute(s) ==
  /\ MayStep(s)
  /\ Stage(sess[s]) = "compute"
  /\ LET r == sess[s]
         t == Head(Top(r).todo)
         stale == \E i \in 1..Len(rel[t]) : rel[t][i] # NoScore
         h == [hist EXCEPT !.calls[t] = @ + 1,
                           !.again = IF stale THEN @ \cup {t} ELSE @]
         r1 == [r EXCEPT !.calls = @ + 1]
     IN IF ScorerRaises(t)
        THEN /\ \E ok \in SendOutcomes : Commit(s, Outcome(r, RaiseInFrame(r1), ok))
             /\ hist' = h
             /\ rel' = rel
        ELSE /\ Commit(s, ProcessLoop(AfterScore([r1 EXCEPT !.writes = @ + 1],
                                                 compare_two_papers(t))))
             /\ hist' = [h EXCEPT !.writes[t] = @ + 1]
             /\ rel' = [rel EXCEPT ![t] = UpdateRows(@, compare_two_papers(t))]
  /\ UNCHANGED world


\* ------------------------------------------------------ the batch of one expansion
\* nodes of the references / parents that passed the threshold, then the
\* node of the current paper (its relevance_score is that of the papers row: None)
BatchNodes(r) ==
  LET f == Top(r)
      found == SelectSeq(f.filtered, LAMBDA n :
                 /\ get_paper_by_semantic_id(n.id)
                 /\ (f.phase = "up" => n.id \notin r.explored))
  IN IF get_paper_by_semantic_id(f.start)
     THEN Append(found, Node(f.start, NoScore))
     ELSE found

\* variant: the links of explore_upward run from the start paper to the citer
BatchLinksSameDirection(f) ==
  [i \in 1..Len(f.filtered) |-> <<f.start, f.filtered[i].id>>]

\* the links of the batch, <<source, target>>: explore_downward builds them
\* from the start paper to the reference, explore_upward from the parent to
\* the start paper
BatchLinks(f) ==
  [i \in 1..Len(f.filtered) |->
     IF f.phase = "down" THEN <<f.start, f.filtered[i].id>>
     ELSE <<f.filtered[i].id, f.start>>]

\* variant: the phase labels of the two explorers are exchanged
ExploreEmitSwapped(r) ==
  LET f == Top(r)
      nodes == BatchNodes(r)
      links == BatchLinks(f)
      r1 == SetTop(r, [f EXCEPT !.stage = "insert"])
  IN IF f.phase = "down" THEN Send(r1, BatchMsg("upward", f.start, nodes, links))
     ELSE IF nodes # <<>> \/ links # <<>>
          THEN Send(r1, BatchMsg("downward", f.start, nodes, links))
          ELSE r1

\* variant: the message carries the links but not the nodes
ExploreEmitLinksOnly(r) ==
  LET f == Top(r)
      links == BatchLinks(f)
      r1 == SetTop(r, [f EXCEPT !.stage = "insert"])
  IN IF f.phase = "down" THEN Send(r1, BatchMsg("downward", f.start, <<>>, links))
     ELSE IF links # <<>>
          THEN Send(r1, BatchMsg("upward", f.start, <<>>, links))
          ELSE r1

\* websocket.send_json of the batch; explore_upward sends it "if nodes or links"
ExploreEmit(r) ==
  LET f == Top(r)
      nodes == BatchNodes(r)
      links == BatchLinks(f)
      r1 == SetTop(r, [f EXCEPT !.stage = "insert"])
  IN IF f.phase = "down" THEN Send(r1, BatchMsg("downward", f.start, nodes, links))
     ELSE IF nodes # <<>> \/ links # <<>>
          THEN Send(r1, BatchMsg("upward", f.start, nodes, links))
          ELSE r1

Emit(s) ==
  /\ MayStep(s)
  /\ Stage(sess[s]) = "emit"
  /\ \E ok \in SendOutcomes : Commit(s, Outcome(sess[s], ExploreEmit(sess[s]), ok))
  /\ UNCHANGED <<world, rel, hist>>

\* variant: discovered_nodes.update(reference_ids.keys()) is missing
ExploreInsertStartOnly(r) ==
  LET f == Top(r)
      ins == InsertAll(r.ttype, r.frontier, BatchNodes(r))
      r1 == [r EXCEPT !.frontier = ins.f]
  IN IF ins.err THEN RaiseInFrame(r1)
     ELSE SetTop(r1, [f EXCEPT !.stage = "drain", !.disc = {f.start}])

\* "for node in nodes: frontier.insert(node)" and discovered_nodes
ExploreInsert(r) ==
  LET f == Top(r)
      ins == InsertAll(r.ttype, r.frontier, BatchNodes(r))
      ids == {f.filtered[i].id : i \in 1..Len(f.filtered)}
      r1 == [r EXCEPT !.frontier = ins.f]
  IN IF ins.err THEN RaiseInFrame(r1)
     ELSE SetTop(r1, [f EXCEPT !.stage = "drain", !.disc = {f.start} \cup ids])

Insert(s) ==
  /\ MayStep(s)
  /\ Stage(sess[s]) = "insert"
  /\ \E ok \in SendOutcomes : Commit(s, Outcome(sess[s], ExploreInsert(sess[s]), ok))
  /\ UNCHANGED <<world, rel, hist>>

\* variant: the loop looks at the next entry and leaves it in the frontier
ExploreDrainNoPop(r) ==
  LET f == Top(r)
  IN IF FrontierIsEmpty(r.frontier) THEN ReturnTo(r, f.disc)
     ELSE LET p == FrontierPop(r.ttype, r.frontier)
          IN IF p.err THEN RaiseInFrame(r)
             ELSE IF p.item.id \notin r.explored
             THEN [r EXCEPT !.stack = Append(@, Frame(f.phase, p.item.id, f.depth + 1))]
             ELSE r

\* variant: the loop pops without asking is_empty first
ExploreDrainNoCheck(r) ==
  LET f == Top(r)
      p == FrontierPop(r.ttype, r.frontier)
      r1 == [r EXCEPT !.frontier = p.f]
  IN IF p.err THEN RaiseInFrame(r1)
     ELSE IF p.item.id \notin r.explored
     THEN [r1 EXCEPT !.stack = Append(@, Frame(f.phase, p.item.id, f.depth + 1))]
     ELSE r1

\* one round of "while not frontier.is_empty()", or "return discovered_nodes"
ExploreDrain(r) ==
  LET f == Top(r)
  IN IF FrontierIsEmpty(r.frontier) THEN ReturnTo(r, f.disc)
     ELSE LET p == FrontierPop(r.ttype, r.frontier)
              r1 == [r EXCEPT !.frontier = p.f]
          IN IF p.err THEN RaiseInFrame(r1)
             ELSE IF p.item.id \notin r.explored
             THEN [r1 EXCEPT !.stack = Append(@, Frame(f.phase, p.item.id, f.depth + 1))]
             ELSE r1

Drain(s) ==
  /\ MayStep(s)
  /\ Stage(sess[s]) = "drain"
  /\ \E ok \in SendOutcomes : Commit(s, Outcome(sess[s], ExploreDrain(sess[s]), ok))
  /\ UNCHANGED <<world, rel, hist>>

\* ------------------------------------------------------ explore_paper, after the downward phase
\* one round of "for node_id in discovered_nodes_downward" (a set: any order)
\* given the relation row that came back, NoRow when none did
NoRow == -2
QualifyNode(r, n, row) ==
  LET r1 == [r EXCEPT !.qual_todo = @ \ {n}]
      r2 == IF n = root_paper_id \/ row = NoRow THEN r1
            ELSE IF row = NoScore THEN RaiseInSession(r1)   \* None >= float
            ELSE IF row >= r.threshold
                 THEN [r1 EXCEPT !.qualified = Append(@, n)]
                 ELSE r1
  IN IF r2.pc = "qualify" /\ r2.qual_todo = {} THEN BeginUpward(r2) ELSE r2

Qualify(s) ==
  /\ MayStep(s)
  /\ sess[s].pc = "qualify"
  /\ \E n \in sess[s].qual_todo, ok \in SendOutcomes :
        IF rel[n] = <<>>
        THEN Commit(s, Outcome(sess[s], QualifyNode(sess[s], n, NoRow), ok))
        ELSE \E i \in 1..Len(rel[n]) :
               Commit(s, Outcome(sess[s], QualifyNode(sess[s], n, rel[n][i]), ok))
  /\ UNCHANGED <<world, rel, hist>>

\* variant: explored_upwards.remove(qnode_id) is missing
ExploreUpwardNextNoRemove(r) ==
  IF r.up_todo = <<>> THEN [r EXCEPT !.pc = "done", !.result = "ok"]
  ELSE LET q == Head(r.up_todo)
       IN [r EXCEPT !.up_todo = Tail(@),
                    !.called_up = Append(@, [id |-> q, explored |-> r.explored \ {q}]),
                    !.stack = <<Frame("up", q, 0)>>]

\* one round of "for qnode_id in qualified_nodes", or the return of explore_paper
ExploreUpwardNext(r) ==
  IF r.up_todo = <<>> THEN [r EXCEPT !.pc = "done", !.result = "ok"]
  ELSE LET q == Head(r.up_todo)
       IN [r EXCEPT !.up_todo = Tail(@), !.explored = @ \ {q},
                    !.called_up = Append(@, [id |-> q, explored |-> r.explored \ {q}]),
                    !.stack = <<Frame("up", q, 0)>>]

UpwardNext(s) ==
  /\ MayStep(s)
  /\ sess[s].pc = "up" /\ sess[s].stack = <<>>
  /\ Commit(s, ExploreUpwardNext(sess[s]))
  /\ UNCHANGED <<world, rel, hist>>

\* ------------------------------------------------------ specification
\* the scenario of the specification's section 8: P0 cites P1 (0.95) and
\* P2 (0.40), P3 cites P1 and scores 0.9, threshold 0.88
ScenarioCitations == {<<"P0", "P1">>, <<"P0", "P2">>, <<"P3", "P1">>}
ScenarioSim == [p \in Papers |-> IF p = "P2" THEN 0 ELSE MaxScore]
IsScenario ==
  /\ citations = ScenarioCitations /\ papers = Papers /\ broken = {}
  /\ sim = ScenarioSim

\* every repository over EnumPapers with at most MaxEdges
\* citations and at most MaxBad papers that are missing or cannot be scored
InitEnumerated ==
  /\ citations \in {E \in SUBSET (EdgePairs \cap (EnumPapers \X EnumPapers)) :
                      Cardinality(E) <= MaxEdges}
  /\ papers \in {Papers \ m : m \in {m \in SUBSET EnumPapers : Cardinality(m) <= MaxBad}}
  /\ broken \in {b \in SUBSET (papers \cap EnumPapers) :
                   Cardinality(b) + Cardinality(Papers \ papers) <= MaxBad}
  /\ sim \in {f \in [Papers -> Scores] :
                /\ f[root_paper_id] = IF root_paper_id \in papers \ broken
                                      THEN MaxScore ELSE 0
                /\ \A p \in Papers :
                     (p \notin papers \/ p \in broken \/ p \notin EnumPapers) => f[p] = 0
                /\ (root_paper_id \notin papers \/ root_paper_id \in broken)
                      => \A p \in Papers : f[p] = 0}

\* a repository in which the order of expansion decides what is reached within
\* max_depth: P0 cites P1 and P2, P1 cites P3, every paper scores MaxScore
BranchingCitations == {<<"P0", "P1">>, <<"P0", "P2">>, <<"P1", "P3">>}
IsBranching ==
  /\ citations = BranchingCitations /\ papers = Papers /\ broken = {}
  /\ sim = [p \in Papers |-> MaxScore]

InitWorld == InitEnumerated \/ IsScenario \/ IsBranching

InitState ==
  /\ rel = [p \in Papers |-> <<>>]
  /\ sess = [s \in Sess |-> IdleSession]
  /\ turn = 0
  /\ hist = [calls |-> [p \in Papers |-> 0], writes |-> [p \in Papers |-> 0],
             again |-> {}]

Init == InitWorld /\ InitState /\ concurrent = FALSE /\ fr = FrontierUnused /\ sc = ScorerUnused

Next ==
  \E s \in Sess :
     \/ StartSession(s)
     \/ Enter(s)
     \/ Lookup(s)
     \/ Create(s)
     \/ Compute(s)
     \/ Emit(s)
     \/ Insert(s)
     \/ Drain(s)
     \/ Qualify(s)
     \/ UpwardNext(s)

Spec == Init /\ [][Next]_vars

\* a session that can take a step takes one: the event loop resumes a
\* coroutine whose awaited call has returned (or raised)
SessionStep(s) ==
  \/ Enter(s) \/ Lookup(s) \/ Create(s) \/ Compute(s) \/ Emit(s)
  \/ Insert(s) \/ Drain(s) \/ Qualify(s) \/ UpwardNext(s)

\* one call of explore_paper, run to its end, against any of the repositories
\* whose calls all return
InitLive ==
  /\ InitWorld /\ papers = Papers /\ broken = {}
  /\ concurrent = FALSE /\ fr = FrontierUnused /\ sc = ScorerUnused
  /\ rel = [p \in Papers |-> <<>>]
  /\ sess = [s \in Sess |-> IF s = 1 THEN IdleSession
                            ELSE [IdleSession EXCEPT !.pc = "unused"]]
  /\ turn = 0
  /\ hist = [calls |-> [p \in Papers |-> 0], writes |-> [p \in Papers |-> 0],
             again |-> {}]

SpecLive == InitLive /\ [][Next]_vars /\ \A s \in Sess : WF_vars(SessionStep(s))

\* one Queue, Stack or PriorityQueue (built as explore_paper builds it) under
\* any sequence of insert and pop calls; no session runs
InitFrontier ==
  /\ IsScenario /\ InitState /\ concurrent = FALSE
  /\ \E ttype \in TraversalTypes : fr = [FrontierUnused EXCEPT !.ttype = ttype]
  /\ sc = ScorerUnused

NextFrontier == (\E e \in FrontierEntries : FrInsert(e)) \/ FrPop

SpecFrontier == InitFrontier /\ [][NextFrontier]_vars

\* one call of explore_paper on a relations table that earlier calls left
\* behind: a pair can have a row without a score, the row that
\* fetch_or_insert_relation created before a scoring that raised
InitStored ==
  /\ InitWorld /\ papers = Papers /\ broken = {}
  /\ concurrent = FALSE /\ fr = FrontierUnused /\ sc = ScorerUnused
  /\ rel \in [Papers -> {<<>>, <<NoScore>>}]
  /\ sess = [s \in Sess |-> IF s = 1 THEN IdleSession
                            ELSE [IdleSession EXCEPT !.pc = "unused"]]
  /\ turn = 0
  /\ hist = [calls |-> [p \in Papers |-> 0], writes |-> [p \in Papers |-> 0],
             again |-> {}]

SpecStored == InitStored /\ [][Next]_vars

\* one call of compare_two_papers on any two lists of chunk rows; no session runs
ChunkLists == UNION {[1..n -> ChunkRows] : n \in 0..MaxChunks}
InitScorer ==
  /\ IsScenario /\ InitState /\ concurrent = FALSE /\ fr = FrontierUnused
  /\ \E main_chunks \in ChunkLists, baseline_chunks \in ChunkLists, alpha \in Alphas :
        sc = [ScorerUnused EXCEPT !.pc = "called", !.main_chunks = main_chunks,
                                  !.baseline_chunks = baseline_chunks, !.alpha = alpha]

NextScorer == CollectEmbeddings \/ ReturnScore

SpecScorer == InitScorer /\ [][NextScorer]_vars

\* two sessions of different worker processes overlapping in time
InitRace ==
  /\ (InitEnumerated \/ IsScenario) /\ papers = Papers /\ broken = {}
  /\ InitState /\ concurrent = TRUE /\ fr = FrontierUnused /\ sc = ScorerUnused
SpecRace == InitRace /\ [][Next]_vars


\* ====================================================== properties
Range(q) == {q[i] : i \in 1..Len(q)}
Batches(r) == {i \in 1..Len(r.msgs) : r.msgs[i].kind = "batch"}
NodeIds(m) == {m.nodes[i].id : i \in 1..Len(m.nodes)}
LinkEnds(m) == UNION {{m.links[i][1], m.links[i][2]} : i \in 1..Len(m.links)}
ExpandedIn(r, phase) == {i \in 1..Len(r.expanded) : r.expanded[i].phase = phase}
ExpandedIds(r, phase) == {r.expanded[i].id : i \in ExpandedIn(r, phase)}
DownReturned(r) == r.pc \in {"qualify", "up", "done"}

\* C1: within one session every "downward" batch is sent before every
\* "upward" batch: no downward batch follows an upward batch in the stream.
C1_DownwardBeforeUpward ==
  \A s \in Sess : \A i, j \in Batches(sess[s]) :
     (sess[s].msgs[i].phase = "upward" /\ sess[s].msgs[j].phase = "downward") => j < i

\* a session that sent the batch of a recursive downward sub-expansion and
\* later an upward batch
C1_Witness ==
  \E s \in Sess : \E i, j \in Batches(sess[s]) :
     /\ sess[s].msgs[i].phase = "downward" /\ sess[s].msgs[i].of # sess[s].start
     /\ sess[s].msgs[j].phase = "upward"

\* C2: in every batch message each link has at least one endpoint whose node
\* is in the nodes of the same message.
C2_LinkHasEndpointNode ==
  \A s \in Sess : \A i \in Batches(sess[s]) :
     LET m == sess[s].msgs[i]
     IN \A k \in 1..Len(m.links) :
           m.links[k][1] \in NodeIds(m) \/ m.links[k][2] \in NodeIds(m)

\* a downward batch and an upward batch that both carry a link
C2_Witness ==
  \E s \in Sess : \E i, j \in Batches(sess[s]) :
     /\ sess[s].msgs[i].phase = "downward" /\ sess[s].msgs[i].links # <<>>
     /\ sess[s].msgs[j].phase = "upward" /\ sess[s].msgs[j].links # <<>>

\* C3: during one downward phase each paper id is expanded (passes the
\* guards of explore_downward and is added to the explored set) at most once,
\* and every expanded id is in the explored set from then on.
C3_ExpandedAtMostOnce ==
  \A s \in Sess :
     /\ \A i, j \in ExpandedIn(sess[s], "down") :
           sess[s].expanded[i].id = sess[s].expanded[j].id => i = j
     /\ ExpandedIds(sess[s], "down") \subseteq
           (IF DownReturned(sess[s]) THEN sess[s].explored_down ELSE sess[s].explored)

\* two papers that cite each other were both expanded in one downward phase
C3_Witness ==
  \E s \in Sess : \E p, q \in ExpandedIds(sess[s], "down") :
     /\ p # q /\ <<p, q>> \in citations /\ <<q, p>> \in citations
     /\ DownReturned(sess[s])

\* the score of paper p to the root is below the threshold of session s
\* (a paper without a row in papers scores 0.0)
BelowThreshold(s, p) ==
  \/ p \notin papers /\ 0 < sess[s].threshold
  \/ p \in papers /\ ~ScorerRaises(p) /\ sim[p] < sess[s].threshold

BatchesWith(r, p) == {i \in Batches(r) : p \in NodeIds(r.msgs[i]) \cup LinkEnds(r.msgs[i])}

\* C4: a paper other than the session's start paper whose score to the root
\* is below threshold is in at most one emitted batch of the session and is
\* never expanded by explore_downward or explore_upward.
C4_BelowThresholdNeverExpanded ==
  \A s \in Sess : \A p \in Papers :
     (sess[s].pc # "idle" /\ p # sess[s].start /\ BelowThreshold(s, p)) =>
        /\ Cardinality(BatchesWith(sess[s], p)) <= 1
        /\ p \notin ExpandedIds(sess[s], "down") \cup ExpandedIds(sess[s], "up")

\* a finished session that scored a paper below threshold (a reference in the
\* downward phase or a citer in the upward phase) next to one that passed
C4_Witness ==
  \E s \in Sess : \E p \in Papers :
     /\ sess[s].pc = "done"
     /\ p # sess[s].start /\ BelowThreshold(s, p) /\ rel[p] # <<>>
     /\ p \in sess[s].explored
     /\ \E i \in Batches(sess[s]) : sess[s].msgs[i].links # <<>>

NoErrorIn(r, n) == \A i \in 1..n : r.msgs[i].kind # "error"
ScoredIds(r) == {n.id : n \in r.scored}
PassedIds(r) == {n.id : n \in {m \in r.scored : m.score >= r.threshold}}

CalledUpIds(r) == {r.called_up[i].id : i \in 1..Len(r.called_up)}

\* C6: when no scoring call of the session failed, upward_discovered contains
\* every qualified node and every citer of a qualified node that scores at
\* least threshold and was not in the upward explored set when the qualified
\* node was processed; in the scenario where only P1 qualifies it is {P1, P3}.
C6_UpwardDiscovered ==
  \A s \in Sess :
     (sess[s].pc = "done" /\ sess[s].result = "ok" /\ sess[s].calls = sess[s].writes) =>
        /\ Range(sess[s].qualified) = CalledUpIds(sess[s])
        /\ \A i \in 1..Len(sess[s].called_up) :
              LET c == sess[s].called_up[i]
              IN /\ c.id \in sess[s].up_all
                 /\ \A x \in papers :
                       (/\ <<x, c.id>> \in citations
                        /\ sim[x] >= sess[s].threshold
                        /\ x \notin c.explored) => x \in sess[s].up_all
        /\ (IsScenario /\ sess[s].qualified = <<"P1">>) => sess[s].up_all = {"P1", "P3"}

\* the scenario: only P1 qualified, its citer P3 was found
C6_Witness ==
  /\ IsScenario
  /\ sess[1].pc = "done" /\ sess[1].result = "ok"
  /\ sess[1].qualified = <<"P1">>
  /\ sess[1].up_all = {"P1", "P3"}

SameRunTwice ==
  /\ sess[1].pc = "done" /\ sess[2].pc = "done"
  /\ sess[1].ttype = sess[2].ttype

SameOutcome ==
  /\ sess[2].calls = 0 /\ sess[2].writes = 0
  /\ sess[2].result = sess[1].result
  /\ sess[2].down_disc = sess[1].down_disc
  /\ sess[2].up_all = sess[1].up_all

C8_ScoreNotRecomputed == hist.again = {}

\* C9: with overlapping sessions the score of a pair is computed and written
\* once and at most one relation row exists for the pair.
C9_ComputedAndWrittenOnce ==
  \A p \in Papers :
     /\ hist.calls[p] <= 1 /\ hist.writes[p] <= 1
     /\ Len(rel[p]) <= 1

\* C10: for a seed that is in the papers table and has no resolvable
\* reference, the downward phase sends exactly one message, the batch with
\* the seed node alone and no link, and returns {seed}.
C10_SeedWithoutReferences ==
  \A s \in Sess :
     (/\ DownReturned(sess[s])
      /\ sess[s].start \in papers
      /\ \A c \in Papers : <<sess[s].start, c>> \in citations => c \notin papers) =>
        /\ sess[s].down_msgs = 1
        /\ sess[s].msgs[1] = BatchMsg("downward", sess[s].start,
                                      <<Node(sess[s].start, NoScore)>>, <<>>)
        /\ sess[s].down_disc = {sess[s].start}

\* the step of an explore_downward call that was entered with
\* current_depth > max_depth, the client being there
DepthGuardStep(s) ==
  LET r == sess[s]
  IN (/\ Stage(r) = "enter" /\ Top(r).phase = "down" /\ Top(r).depth > r.max_depth
      /\ sess'[s] # r /\ sess'[s].pc # "crashed") =>
        /\ sess'[s].msgs = Append(r.msgs, StatusMsg)
        /\ sess'[s].explored = r.explored
        /\ sess'[s].frontier = r.frontier
        /\ sess'[s].expanded = r.expanded
        /\ sess'[s].stack = SubSeq(r.stack, 1, Len(r.stack) - 1)

\* a downward phase with max_depth = 0 that came back, from a seed that is in
\* the papers table and has a reference scoring at least threshold, no call
\* having raised on the way
DepthZeroDone(r) ==
  /\ DownReturned(r) /\ r.max_depth = 0
  /\ r.start \in papers /\ r.calls = r.writes
  /\ PassedIds(r) \cap papers # {}

DepthZeroOutcome(r) ==
  /\ r.down_msgs >= 2
  /\ r.msgs[1].kind = "batch" /\ r.msgs[1].of = r.start
  /\ PassedIds(r) \cap papers \subseteq NodeIds(r.msgs[1])
  /\ ExpandedIds(r, "down") = {r.start}
  /\ \E i \in 2..r.down_msgs : r.msgs[i] = StatusMsg

\* C11: no paper is expanded by explore_downward at a depth greater than
\* max_depth; a call with depth > max_depth sends the max-depth status message,
\* returns the empty set and leaves the explored set and the frontier as they
\* were; with max_depth = 0 the seed's references are in the seed's batch, none
\* of them is expanded and a status message is sent.
C11_DepthBound ==
  /\ [](\A s \in Sess :
          /\ \A i \in ExpandedIn(sess[s], "down") :
                sess[s].expanded[i].depth <= sess[s].max_depth
          /\ DepthZeroDone(sess[s]) => DepthZeroOutcome(sess[s]))
  /\ [][\A s \in Sess : DepthGuardStep(s)]_vars

\* C12: an error message is the last message of its session (so there is one
\* at most), and once it was sent no further paper is expanded.
C12_ErrorIsLast ==
  /\ [](\A s \in Sess : \A i \in 1..Len(sess[s].msgs) :
          sess[s].msgs[i].kind = "error" => i = Len(sess[s].msgs))
  /\ [][\A s \in Sess :
          (\E i \in 1..Len(sess[s].msgs) : sess[s].msgs[i].kind = "error")
             => sess'[s].expanded = sess[s].expanded]_vars

\* C13 as stated: an explore_downward call whose start paper is not in the
\* papers table returns the empty set and sends no error message.
C13_MissingStartReturnsEmpty ==
  \A s \in Sess :
     (DownReturned(sess[s]) /\ sess[s].start \notin papers) =>
        /\ sess[s].down_disc = {}
        /\ NoErrorIn(sess[s], sess[s].down_msgs)

\* C13 amended: only the top-level explore_downward call can have a start
\* paper that is not in the papers table; that call makes no scoring call,
\* sends one batch without nodes and links and no error message, and returns
\* the set holding just the start id; explore_paper then goes on and returns
\* normally with nothing discovered upward.
C13_MissingStartReturnsItself ==
  \A s \in Sess :
     /\ \A i \in ExpandedIn(sess[s], "down") :
           sess[s].expanded[i].id \notin papers => i = 1
     /\ (DownReturned(sess[s]) /\ sess[s].start \notin papers) =>
           /\ sess[s].down_disc = {sess[s].start}
           /\ sess[s].down_msgs = 1
           /\ sess[s].msgs[1] = BatchMsg("downward", sess[s].start, <<>>, <<>>)
           /\ sess[s].calls = 0
           /\ sess[s].pc = "done" => (sess[s].result = "ok" /\ sess[s].up_all = {})

\* a finished session whose start paper has rows in citations and none in papers
C13_Witness ==
  \E s \in Sess :
     /\ sess[s].pc = "done" /\ sess[s].start \notin papers
     /\ \E c \in papers : <<sess[s].start, c>> \in citations
     /\ sess[s].down_disc = {sess[s].start}

\* the session's client is gone: a send of the session has failed
ClientGone(r) == r.result = "raised"

\* C14: once a send has failed (and sends keep failing) the session makes no
\* further call to the papers, citations or relations tables or to the scorer
\* and writes no relation: every frame has unwound and explore_paper is over.
C14_NoCallsAfterSendFailure ==
  /\ [](\A s \in Sess :
          ClientGone(sess[s]) => (sess[s].pc = "crashed" /\ sess[s].stack = <<>>))
  /\ [][\A s \in Sess :
          ClientGone(sess[s]) =>
             /\ sess'[s].calls = sess[s].calls /\ sess'[s].writes = sess[s].writes
             /\ sess'[s].expanded = sess[s].expanded
             /\ rel' = rel]_vars

\* a send failed while a nested explore_downward frame was active, after the
\* session had computed a score and with entries left in the frontier
C14_Witness ==
  \E s \in Sess :
     /\ ClientGone(sess[s])
     /\ Len(sess[s].expanded) >= 2 /\ sess[s].writes >= 1
     /\ sess[s].frontier # <<>>

\* ------------------------------------------------------ frontier disciplines
RemoveAt(q, i) == SubSeq(q, 1, i - 1) \o SubSeq(q, i + 1, Len(q))

\* position, in the insertion-ordered list q of pending entries, of the entry
\* a discipline says pop must return
DueIndex(discipline, q) ==
  IF discipline = "oldest" THEN 1
  ELSE IF discipline = "newest" THEN Len(q)
  ELSE CHOOSE i \in 1..Len(q) :
         /\ \A j \in 1..Len(q) : q[j].score <= q[i].score
         /\ \A j \in 1..(i - 1) : q[j].score < q[i].score

\* the entries inserted and not yet popped after the first n calls of the
\* trace, in insertion order, when pops follow the discipline
RECURSIVE PendingAfter(_, _, _)
PendingAfter(discipline, ops, n) ==
  IF n = 0 THEN <<>>
  ELSE LET q == PendingAfter(discipline, ops, n - 1)
       IN IF ops[n].op = "insert" THEN Append(q, ops[n].item)
          ELSE IF q = <<>> THEN q
          ELSE RemoveAt(q, DueIndex(discipline, q))

PendingBefore(discipline) == PendingAfter(discipline, fr.ops, Len(fr.ops) - 1)
LastOp == fr.ops[Len(fr.ops)]
PoppedNonEmpty(discipline) ==
  /\ fr.ops # <<>> /\ LastOp.op = "pop"
  /\ PendingBefore(discipline) # <<>>

\* C15: on a Queue, after any sequence of insert and pop, pop returns the
\* oldest entry among those inserted and not yet popped, and is_empty is true
\* exactly when every inserted entry has been popped.
C15_FifoPopsOldest ==
  fr.ttype = "bfs" =>
     /\ PoppedNonEmpty("oldest") =>
           (~fr.err /\ LastOp.item = PendingBefore("oldest")[1])
     /\ FrontierIsEmpty(fr.f) <=> PendingAfter("oldest", fr.ops, Len(fr.ops)) = <<>>

\* two different entries went into a Queue and came out, in that order
C15_Witness ==
  /\ fr.ttype = "bfs" /\ Len(fr.ops) = 4 /\ ~fr.err
  /\ fr.ops[1].op = "insert" /\ fr.ops[2].op = "insert"
  /\ fr.ops[1].item # fr.ops[2].item
  /\ fr.ops[3] = [op |-> "pop", item |-> fr.ops[1].item]
  /\ fr.ops[4] = [op |-> "pop", item |-> fr.ops[2].item]
  /\ FrontierIsEmpty(fr.f)

\* C16: on a Stack, after any sequence of insert and pop, pop returns the most
\* recently inserted entry among those not yet popped.
C16_LifoPopsNewest ==
  (fr.ttype = "dfs" /\ PoppedNonEmpty("newest")) =>
     LET q == PendingBefore("newest")
     IN ~fr.err /\ LastOp.item = q[Len(q)]

\* an entry went into a Stack, then a different one went in and came out,
\* then the first came out
C16_Witness ==
  /\ fr.ttype = "dfs" /\ Len(fr.ops) = 4 /\ ~fr.err
  /\ fr.ops[1].op = "insert" /\ fr.ops[2].op = "insert"
  /\ fr.ops[1].item # fr.ops[2].item
  /\ fr.ops[3] = [op |-> "pop", item |-> fr.ops[2].item]
  /\ fr.ops[4] = [op |-> "pop", item |-> fr.ops[1].item]

\* C17: on the PriorityQueue that explore_paper builds, inserting a node the
\* explorers insert never raises, pop on a non-empty queue never raises and
\* returns the entry with the highest score among those inserted and not yet
\* popped, the one inserted first among entries of equal score.
C17_BestFirstStable ==
  fr.ttype = "priority" =>
     /\ (fr.ops # <<>> /\ LastOp.op = "insert") => ~fr.err
     /\ PoppedNonEmpty("best") =>
           LET q == PendingBefore("best")
           IN ~fr.err /\ LastOp.item = q[DueIndex("best", q)]

\* a round of the loop of explore_downward / explore_upward, the client being
\* there: on an empty frontier the call returns without a pop (no exception,
\* so no message), on a non-empty one exactly one entry leaves the frontier
DrainRound(s) ==
  LET r == sess[s]
  IN (Stage(r) = "drain" /\ sess'[s] # r /\ sess'[s].pc # "crashed") =>
        IF FrontierIsEmpty(r.frontier)
        THEN /\ sess'[s].msgs = r.msgs
             /\ FrontierIsEmpty(sess'[s].frontier)
             /\ Len(sess'[s].stack) = Len(r.stack) - 1
        ELSE Len(sess'[s].frontier) = Len(r.frontier) - 1

\* C18: pop on an empty Queue, Stack or PriorityQueue fails with an error and
\* leaves the structure empty; the loops of the explorers never pop an empty
\* frontier: each pop follows an is_empty check that returned false.
C18_NoPopOnEmpty ==
  /\ [](\A ttype \in TraversalTypes :
          /\ FrontierPop(ttype, <<>>).err
          /\ FrontierIsEmpty(FrontierPop(ttype, <<>>).f))
  /\ [][\A s \in Sess : DrainRound(s)]_vars

\* a session whose loops emptied the frontier in both phases, frames nested
C18_Witness ==
  \E s \in Sess :
     /\ sess[s].pc = "done" /\ sess[s].result = "ok"
     /\ FrontierIsEmpty(sess[s].frontier)
     /\ Cardinality(ExpandedIn(sess[s], "down")) >= 2
     /\ Cardinality(ExpandedIn(sess[s], "up")) >= 2

\* C19: every call of explore_paper returns (or raises, when the client is
\* gone), whatever the citation graph, max_depth, threshold and traversal
\* order; when it returns and no exception occurred on the way, the frontier
\* is drained and no explorer frame is left.
C19_Terminates ==
  /\ \A s \in Sess : Running(sess[s]) ~> Finished(sess[s])
  /\ [](\A s \in Sess :
          Finished(sess[s]) =>
             /\ sess[s].stack = <<>>
             /\ (sess[s].pc = "done" /\ NoErrorIn(sess[s], Len(sess[s].msgs)))
                   => FrontierIsEmpty(sess[s].frontier))

\* explore_paper returned in a repository where two papers cite each other,
\* after expanding papers in both phases
C19_Witness ==
  \E s \in Sess : \E p, q \in papers :
     /\ <<p, q>> \in citations /\ <<q, p>> \in citations
     /\ sess[s].pc = "done" /\ sess[s].max_depth = MaxDepth
     /\ {p, q} \subseteq ExpandedIds(sess[s], "down")
     /\ ExpandedIds(sess[s], "up") # {}

\* C20: two runs of explore_paper on the same repository with the same root,
\* start, max_depth and threshold return the same downward_discovered set
\* whatever their traversal orders are.
C20_OrdersInterchangeable ==
  (sess[1].pc = "done" /\ sess[2].pc = "done") =>
     sess[1].down_disc = sess[2].down_disc

\* C21: for non-empty embedding lists A and B and any alpha,
\* compare_paper_embeddings(A, B) = compare_paper_embeddings(B, A), and so are
\* the mean-pool term and the best-match term.
C21_ScoreSymmetric ==
  (sc.pc = "returned" /\ sc.invoked) =>
     /\ sc.score = compare_paper_embeddings(sc.embeddings_B, sc.embeddings_A, sc.alpha)
     /\ mean_embedding_similarity(sc.embeddings_A, sc.embeddings_B)
           = mean_embedding_similarity(sc.embeddings_B, sc.embeddings_A)
     /\ pairwise_chunk_similarity(sc.embeddings_A, sc.embeddings_B)
           = pairwise_chunk_similarity(sc.embeddings_B, sc.embeddings_A)

\* a score strictly between 0.0 and 1.0 of two papers with different numbers
\* of chunks
C21_Witness ==
  /\ sc.pc = "returned" /\ sc.invoked
  /\ Len(sc.embeddings_A) # Len(sc.embeddings_B)
  /\ sc.score > 0 /\ sc.score < Unit

\* C22: when either paper has no chunk with a usable embedding
\* compare_two_papers returns exactly 0.0, raises nothing and does not call
\* the scoring functions.
C22_EmptyScoresZero ==
  (sc.pc = "returned" /\ (sc.embeddings_A = <<>> \/ sc.embeddings_B = <<>>)) =>
     (sc.score = 0 /\ ~sc.raised /\ ~sc.invoked)

\* one paper has chunk rows, none with an embedding, the other has embeddings
C22_Witness ==
  /\ sc.pc = "returned"
  /\ sc.main_chunks # <<>> /\ sc.embeddings_A = <<>>
  /\ sc.embeddings_B # <<>>

DownBatches(r) == {i \in Batches(r) : r.msgs[i].phase = "downward"}
ScoredBelow(r) == {n \in r.scored : n.score < r.threshold /\ n.id \in papers}
DownExplored(r) == IF DownReturned(r) THEN r.explored_down ELSE r.explored

\* C23 as stated: when a stored reference of the paper being expanded scores
\* below threshold, the link from the paper to the reference is in the paper's
\* batch and the reference is in the explored set.  (Stated for the batch of
\* the start paper, whose references are all scored.)
C23_BelowThresholdEdgeEmitted ==
  \A s \in Sess : \A c \in papers :
     (/\ sess[s].msgs # <<>> /\ sess[s].msgs[1].kind = "batch"
      /\ <<sess[s].start, c>> \in citations /\ c # sess[s].start
      /\ BelowThreshold(s, c)) =>
        /\ \E k \in 1..Len(sess[s].msgs[1].links) :
              sess[s].msgs[1].links[k] = <<sess[s].start, c>>
        /\ c \in DownExplored(sess[s])

\* C23 amended: a stored reference that scores below threshold has its score
\* stored in its relation row and is added to the explored set in the step
\* that scores it; it is never expanded, and no downward batch has a node of
\* it or a link to it: every link of a downward batch goes to a reference
\* that scored at least threshold.
C23_BelowThresholdEdgeDropped ==
  \A s \in Sess :
     /\ \A n \in ScoredBelow(sess[s]) :
           /\ n.id \in DownExplored(sess[s])
           /\ rel[n.id] # <<>> /\ \A k \in 1..Len(rel[n.id]) : rel[n.id][k] = n.score
           /\ n.id \notin ExpandedIds(sess[s], "down") \cup ExpandedIds(sess[s], "up")
           /\ \A i \in DownBatches(sess[s]) :
                 n.id \notin NodeIds(sess[s].msgs[i]) \cup LinkEnds(sess[s].msgs[i])
     /\ \A i \in DownBatches(sess[s]) : \A k \in 1..Len(sess[s].msgs[i].links) :
           /\ sess[s].msgs[i].links[k][1] = sess[s].msgs[i].of
           /\ sess[s].msgs[i].links[k][2] \in PassedIds(sess[s])

\* the scenario: P2 scored 0.40 and the batch of P0 has the link to P1 alone
C23_Witness ==
  \E s \in Sess :
     /\ IsScenario /\ sess[s].start = "P0"
     /\ Node("P2", 0) \in ScoredBelow(sess[s])
     /\ sess[s].msgs # <<>>
     /\ sess[s].msgs[1] = BatchMsg("downward", "P0",
                                   <<Node("P1", MaxScore), Node("P0", NoScore)>>,
                                   <<<<"P0", "P1">>>>)

\* the ids of downward_discovered, root excluded, whose relation row holds a
\* score of at least the threshold
QualifiedByStore(r) ==
  {n \in r.down_disc \ {root_paper_id} :
     rel[n] # <<>> /\ rel[n][1] # NoScore /\ rel[n][1] >= r.threshold}

TopLevelUpward(r) ==
  {i \in ExpandedIn(r, "up") : r.expanded[i].depth = 0}

\* C24: the qualified set is exactly the downward-discovered ids other than
\* the root whose stored relevance_score is >= threshold; explore_upward is
\* called at depth 0 once for each of them and for no other id; computing the
\* qualified set never raises, whatever the relations table holds.
C24_QualifiedExact ==
  \A s \in Sess :
     /\ sess[s].result # "error"
     /\ (sess[s].pc = "up" /\ sess[s].called_up = <<>> /\ sess[s].stack = <<>>) =>
           Range(sess[s].qualified) = QualifiedByStore(sess[s])
     /\ (sess[s].pc = "done" /\ sess[s].result = "ok") =>
           /\ CalledUpIds(sess[s]) = Range(sess[s].qualified)
           /\ Len(sess[s].called_up) = Cardinality(Range(sess[s].qualified))
           /\ {sess[s].expanded[i].id : i \in TopLevelUpward(sess[s])} = Range(sess[s].qualified)
           /\ Cardinality(TopLevelUpward(sess[s])) = Len(sess[s].called_up)

UpBatches(r) == {i \in Batches(r) : r.msgs[i].phase = "upward"}

\* C25: the upward explored set starts as a copy of the final downward
\* explored set; no id of the final downward explored set is in an upward
\* batch as a citing node or as the source of a link; the upward phase
\* changes neither the downward explored set nor downward_discovered.
C25_UpwardSkipsDownwardExplored ==
  /\ [](\A s \in Sess : \A i \in UpBatches(sess[s]) :
          LET m == sess[s].msgs[i]
          IN /\ \A k \in 1..Len(m.links) : m.links[k][1] \notin sess[s].explored_down
             /\ \A k \in 1..Len(m.nodes) :
                   m.nodes[k].id # m.of => m.nodes[k].id \notin sess[s].explored_down)
  /\ [][\A s \in Sess :
          /\ (sess[s].pc # "up" /\ sess'[s].pc = "up") =>
                sess'[s].explored = sess'[s].explored_down
          /\ sess[s].pc \in {"up", "done"} =>
                /\ sess'[s].explored_down = sess[s].explored_down
                /\ sess'[s].down_disc = sess[s].down_disc]_vars

\* the scenario: P0 and P3 cite P1, P0 was explored downward, and the upward
\* batch of P1 has the link from P3 alone
C25_Witness ==
  \E s \in Sess : \E i \in UpBatches(sess[s]) :
     /\ IsScenario /\ "P0" \in sess[s].explored_down
     /\ sess[s].msgs[i].of = "P1"
     /\ sess[s].msgs[i].links = <<<<"P3", "P1">>>>

\* the stored references of the start paper that score at least threshold
PassingReferences(r) ==
  {c \in papers \ {r.start} : <<r.start, c>> \in citations /\ sim[c] >= r.threshold}

\* C26: an id without a row in the papers table that occurs as a reference or
\* as a citer is not fatal: the scorer is not invoked for it and no relation
\* row is made, it is in no batch, the other references of the paper are
\* still processed, and no error message results from it.
C26_MissingPaperNotFatal ==
  /\ \A p \in Papers \ papers : hist.calls[p] = 0 /\ rel[p] = <<>>
  /\ \A s \in Sess :
        /\ \A i \in Batches(sess[s]) :
              NodeIds(sess[s].msgs[i]) \cup LinkEnds(sess[s].msgs[i]) \subseteq papers
        /\ (DownReturned(sess[s]) /\ sess[s].start \in papers
              /\ sess[s].calls = sess[s].writes) =>
              /\ sess[s].msgs[1].kind = "batch" /\ sess[s].msgs[1].of = sess[s].start
              /\ {sess[s].msgs[1].links[k][2] : k \in 1..Len(sess[s].msgs[1].links)}
                    = PassingReferences(sess[s])
        /\ (sess[s].pc = "done" /\ sess[s].calls = sess[s].writes
              /\ sess[s].ttype # "priority") =>
              (sess[s].result = "ok" /\ NoErrorIn(sess[s], Len(sess[s].msgs)))

\* a run that ended normally on a start paper with a reference that is not in
\* the papers table and one that is and passed the threshold
C26_Witness ==
  \E s \in Sess : \E c \in Papers \ papers :
     /\ sess[s].pc = "done" /\ sess[s].result = "ok"
     /\ <<sess[s].start, c>> \in citations
     /\ PassingReferences(sess[s]) # {}
     /\ sess[s].msgs[1].links # <<>>

\* the relations table holds a relevance_score for the pair (root_paper_id, p)
HasStoredScore(p) == \E i \in 1..Len(rel[p]) : rel[p][i] # NoScore

\* the end of a link that is not the start paper of its batch
OtherEnd(m, link) == IF m.phase = "downward" THEN link[2] ELSE link[1]

DownwardCallReturns(s) ==
  /\ sess[s].stack # <<>>
  /\ Top(sess[s]).phase = "down" /\ Top(sess[s]).stage # "enter"
  /\ Len(sess'[s].stack) = Len(sess[s].stack) - 1
  /\ sess'[s].pc # "crashed"

\* {start_id}, the ids this call got from process_citations, and what its
\* recursive calls returned
DueFromCall(f) == {f.start} \cup {f.filtered[i].id : i \in 1..Len(f.filtered)} \cup f.disc

\* C28: an explore_downward call that passed both guards hands its caller
\* exactly {start_id}, the ids it discovered and the sets its recursive calls
\* returned; the caller keeps what it had.
C28_ReturnsUnion ==
  [][\A s \in Sess : DownwardCallReturns(s) =>
        LET f == Top(sess[s])
            n == Len(sess'[s].stack)
        IN IF n = 0 THEN sess'[s].down_disc = DueFromCall(f)
           ELSE sess'[s].stack[n].disc = sess[s].stack[n].disc \cup DueFromCall(f)]_vars

\* the links of batch m follow the citations table in the direction of "phase"
LinksFollowCitations(m) ==
  \A k \in 1..Len(m.links) :
     /\ m.links[k] \in citations
     /\ IF m.phase = "downward" THEN m.links[k][1] = m.of ELSE m.links[k][2] = m.of

\* C29: a batch sent by explore_downward has phase "downward" and each of
\* its links runs from its start paper to a reference of it; a batch sent by
\* explore_upward has phase "upward" and each of its links runs from a paper
\* that cites its start paper to the start paper.
C29_LinkDirection ==
  /\ [][\A s \in Sess : \A i \in (Len(sess[s].msgs) + 1)..Len(sess'[s].msgs) :
           sess'[s].msgs[i].kind = "batch" =>
              /\ sess'[s].msgs[i].of = Top(sess[s]).start
              /\ sess'[s].msgs[i].phase =
                    (IF Top(sess[s]).phase = "down" THEN "downward" ELSE "upward")]_vars
  /\ [](\A s \in Sess : \A i \in Batches(sess[s]) :
           /\ sess[s].msgs[i].phase \in {"downward", "upward"}
           /\ LinksFollowCitations(sess[s].msgs[i]))

\* the scenario's session after its downward batch of P0 with the link to
\* P1 and its upward batch of P1 with the link from P3
C29_Witness ==
  \E s \in Sess : \E i \in DownBatches(sess[s]), j \in UpBatches(sess[s]) :
     /\ IsScenario
     /\ sess[s].msgs[i].of = "P0" /\ sess[s].msgs[i].links = <<<<"P0", "P1">>>>
     /\ sess[s].msgs[j].of = "P1" /\ sess[s].msgs[j].links = <<<<"P3", "P1">>>>

\* the papers within k references of the set S, each reference stored and
\* scoring at least threshold
RECURSIVE ReachWithin(_, _, _)
ReachWithin(S, k, threshold) ==
  IF k = 0 THEN S
  ELSE ReachWithin(S \cup {c \in papers : /\ sim[c] >= threshold
                                           /\ \E p \in S \cap papers : <<p, c>> \in citations},
                   k - 1, threshold)

\* the start papers of the downward batches of session r
DownBatchStarts(r) == {r.msgs[i].of : i \in DownBatches(r)}

\* C30: with the FIFO frontier, when nothing raised, the downward phase has
\* sent a batch for every paper within max_depth references of the start
\* paper along references that score at least threshold.
C30_DepthIsDistance ==
  \A s \in Sess :
     (/\ DownReturned(sess[s]) /\ sess[s].ttype = "bfs"
      /\ broken = {} /\ sess[s].start \in papers
      /\ NoErrorIn(sess[s], Len(sess[s].msgs))) =>
        ReachWithin({sess[s].start}, sess[s].max_depth, sess[s].threshold)
           \subseteq DownBatchStarts(sess[s])

=============================================================================
